---- MODULE Spec2Model ----
(***************************************************************************)
(* Model of the cybersecurity agent: the MDP policy engine                 *)
(* (markov_process.py), the in-memory storage (data_storage.py) and the    *)
(* reflex dispatch of agent.py.                                            *)
(*                                                                         *)
(* Number representation.  Python floats are modelled as fixed-point       *)
(* integers: a utility, reward sum or confidence x is held as x * SCALE.   *)
(* Transition probabilities are two-decimal literals in the source and are *)
(* held in hundredths (0.95 is 95); gamma = 0.9 is held in tenths (9).     *)
(* Products round towards minus infinity to one unit of 1/SCALE.           *)
(***************************************************************************)
EXTENDS Integers, Sequences, FiniteSets, TLC

SCALE == 1000 * 1000

\* enum State, in definition order
StateOrder == <<"NO_THREAT", "SUSPICIOUS", "ATTACK", "COMPROMISED">>

State == {StateOrder[k] : k \in 1..Len(StateOrder)}

\* enum Action, in definition order
ActionOrder == <<"MONITOR", "INVESTIGATE", "MITIGATE", "RECOVER">>

Action == {ActionOrder[k] : k \in 1..Len(ActionOrder)}

\* TransitionTable with 0.8 typed as 0.9 in the MONITOR/ATTACK row
TransitionTableTypo ==
  [MONITOR |->
     [NO_THREAT   |-> [NO_THREAT |-> 95, SUSPICIOUS |-> 5],
      SUSPICIOUS  |-> [NO_THREAT |-> 10, SUSPICIOUS |-> 80, ATTACK |-> 10],
      ATTACK      |-> [ATTACK |-> 90, COMPROMISED |-> 20],
      COMPROMISED |-> [COMPROMISED |-> 100]],
   INVESTIGATE |->
     [NO_THREAT   |-> [NO_THREAT |-> 98, SUSPICIOUS |-> 2],
      SUSPICIOUS  |-> [NO_THREAT |-> 40, SUSPICIOUS |-> 50, ATTACK |-> 10],
      ATTACK      |-> [SUSPICIOUS |-> 20, ATTACK |-> 70, COMPROMISED |-> 10],
      COMPROMISED |-> [ATTACK |-> 10, COMPROMISED |-> 90]],
   MITIGATE |->
     [NO_THREAT   |-> [NO_THREAT |-> 99, SUSPICIOUS |-> 1],
      SUSPICIOUS  |-> [NO_THREAT |-> 70, SUSPICIOUS |-> 30],
      ATTACK      |-> [NO_THREAT |-> 20, SUSPICIOUS |-> 50, ATTACK |-> 30],
      COMPROMISED |-> [ATTACK |-> 30, COMPROMISED |-> 70]],
   RECOVER |->
     [NO_THREAT   |-> [NO_THREAT |-> 95, SUSPICIOUS |-> 5],
      SUSPICIOUS  |-> [NO_THREAT |-> 50, SUSPICIOUS |-> 50],
      ATTACK      |-> [NO_THREAT |-> 40, SUSPICIOUS |-> 40, ATTACK |-> 20],
      COMPROMISED |-> [NO_THREAT |-> 50, SUSPICIOUS |-> 30, ATTACK |-> 20]]]

\* self.transition_probs as written in __init__, probabilities in hundredths
TransitionTable ==
  [MONITOR |->
     [NO_THREAT   |-> [NO_THREAT |-> 95, SUSPICIOUS |-> 5],
      SUSPICIOUS  |-> [NO_THREAT |-> 10, SUSPICIOUS |-> 80, ATTACK |-> 10],
      ATTACK      |-> [ATTACK |-> 80, COMPROMISED |-> 20],
      COMPROMISED |-> [COMPROMISED |-> 100]],
   INVESTIGATE |->
     [NO_THREAT   |-> [NO_THREAT |-> 98, SUSPICIOUS |-> 2],
      SUSPICIOUS  |-> [NO_THREAT |-> 40, SUSPICIOUS |-> 50, ATTACK |-> 10],
      ATTACK      |-> [SUSPICIOUS |-> 20, ATTACK |-> 70, COMPROMISED |-> 10],
      COMPROMISED |-> [ATTACK |-> 10, COMPROMISED |-> 90]],
   MITIGATE |->
     [NO_THREAT   |-> [NO_THREAT |-> 99, SUSPICIOUS |-> 1],
      SUSPICIOUS  |-> [NO_THREAT |-> 70, SUSPICIOUS |-> 30],
      ATTACK      |-> [NO_THREAT |-> 20, SUSPICIOUS |-> 50, ATTACK |-> 30],
      COMPROMISED |-> [ATTACK |-> 30, COMPROMISED |-> 70]],
   RECOVER |->
     [NO_THREAT   |-> [NO_THREAT |-> 95, SUSPICIOUS |-> 5],
      SUSPICIOUS  |-> [NO_THREAT |-> 50, SUSPICIOUS |-> 50],
      ATTACK      |-> [NO_THREAT |-> 40, SUSPICIOUS |-> 40, ATTACK |-> 20],
      COMPROMISED |-> [NO_THREAT |-> 50, SUSPICIOUS |-> 30, ATTACK |-> 20]]]

\* RewardTable with the sign of the COMPROMISED/RECOVER reward lost
RewardTableSignSlip ==
  [NO_THREAT   |-> [MONITOR |-> 10, INVESTIGATE |-> -5, MITIGATE |-> -20, RECOVER |-> -50],
   SUSPICIOUS  |-> [MONITOR |-> 0, INVESTIGATE |-> 15, MITIGATE |-> -5, RECOVER |-> -30],
   ATTACK      |-> [MONITOR |-> -30, INVESTIGATE |-> 5, MITIGATE |-> 25, RECOVER |-> 5],
   COMPROMISED |-> [MONITOR |-> -100, INVESTIGATE |-> -20, MITIGATE |-> 5, RECOVER |-> -50]]

\* self.rewards as written in __init__ (whole numbers)
RewardTable ==
  [NO_THREAT   |-> [MONITOR |-> 10, INVESTIGATE |-> -5, MITIGATE |-> -20, RECOVER |-> -50],
   SUSPICIOUS  |-> [MONITOR |-> 0, INVESTIGATE |-> 15, MITIGATE |-> -5, RECOVER |-> -30],
   ATTACK      |-> [MONITOR |-> -30, INVESTIGATE |-> 5, MITIGATE |-> 25, RECOVER |-> 5],
   COMPROMISED |-> [MONITOR |-> -100, INVESTIGATE |-> -20, MITIGATE |-> 5, RECOVER |-> 50]]

\* self.gamma = 0.9, in tenths
GammaTenths == 9

\* ----- tables a caller can assign to the attributes before a re-solve -----
\* transition_probs[MONITOR] without a distribution for ATTACK
TransitionTableMissingEntry ==
  [TransitionTable EXCEPT !["MONITOR"] =
     [s \in State \ {"ATTACK"} |-> TransitionTable["MONITOR"][s]]]

\* transition_probs[MONITOR][ATTACK] summing to 0.9
TransitionTableNotSummingToOne ==
  [TransitionTable EXCEPT !["MONITOR"]["ATTACK"] = [ATTACK |-> 80, COMPROMISED |-> 10]]

\* rewards in which MITIGATE and RECOVER share the largest reward of ATTACK
RewardTableTied ==
  [RewardTable EXCEPT !["ATTACK"]["RECOVER"] = 25]

\* defaults of _compute_optimal_policy(max_iterations=100, epsilon=0.01)
DefaultMaxIterations == 100

DefaultEpsilon == SCALE \div 100

\* ----- bounds of the model -----
MaxSolves == 2

MaxDecisions == 2

MaxEvents == 2

MaxLimit == 3

\* random.randint(1, 5) of _generate_mock_commit_data draws from 1..MaxAuthor
MaxAuthor == 1

\* time.time() when the agent is constructed
StartTime == 1000

\* arguments tried for max_iterations and epsilon (epsilon in 1/SCALE units:
\* 0 never converges, SCALE*1000 converges after the first sweep)
MaxIterationsSet == {0, 1, DefaultMaxIterations}

EpsilonSet == {0, DefaultEpsilon, SCALE * 1000}

VARIABLES
  transition_probs,   \* self.transition_probs
  rewards,            \* self.rewards
  gamma,              \* self.gamma (tenths)
  utilities,          \* self.utilities: State -> fixed-point
  optimal_policy,     \* self.optimal_policy: State -> Action; <<>> before line 110
  pc,                 \* position of the solver ("KeyError": it left by raising KeyError)
  max_iterations,     \* argument of the running solve
  epsilon,            \* argument of the running solve
  i,                  \* number of sweeps performed by the running solve
  l_utilities,        \* local `utilities` of _compute_optimal_policy
  prev_utilities,     \* local `prev_utilities`
  delta,              \* local `delta` of the last sweep
  l_optimal_policy,   \* local `optimal_policy` of _compute_optimal_policy
  solves,             \* history: number of solves started
  utilities_from,     \* history: the solve that wrote self.utilities
  policy_from,        \* history: the solve that wrote self.optimal_policy
  data,               \* DataStorage.data: category -> list of records
  clock,              \* time.time()
  call,               \* history: the last call made on the agent, MDP or storage
  result,             \* history: what that call returned (or the exception it raised)
  read_from,          \* history: the solves whose policy and utilities the last analyze_event read
  stdout              \* the lines printed by markov_process.py

vars == <<transition_probs, rewards, gamma, utilities, optimal_policy, pc,
          max_iterations, epsilon, i, l_utilities, prev_utilities, delta,
          l_optimal_policy, solves, utilities_from, policy_from,
          data, clock, call, result, read_from, stdout>>

\* ----- arithmetic -----
Abs(x) == IF x < 0 THEN -x ELSE x

Max2(x, y) == IF x >= y THEN x ELSE y

Min2(x, y) == IF x <= y THEN x ELSE y

\* prob * x for prob in hundredths, without leaving 32 bits
MulProb(p, x) == p * (x \div 100) + (p * (x % 100)) \div 100

\* discounting that divides by gamma instead of multiplying: x / 0.9
MulGammaDividing(g, x) == (x * 10) \div g

\* g * x for g in tenths
MulGamma(g, x) == (g * x) \div 10

\* dict.get(key, default)
Get(d, k, default) == IF k \in DOMAIN d THEN d[k] ELSE default

\* ----- expected utility of one (state, action) pair: lines 139-152 -----
RECURSIVE ExpectedUtilityFrom(_, _, _, _, _, _, _)
ExpectedUtilityFrom(k, tp, rw, g, U, state, action) ==
  IF k > Len(StateOrder) THEN 0
  ELSE LET next_state == StateOrder[k]
           prob == Get(tp[action][state], next_state, 0)
           rest == ExpectedUtilityFrom(k + 1, tp, rw, g, U, state, action)
       IN IF prob > 0
          THEN MulProb(prob, rw[state][action] * SCALE + MulGamma(g, U[next_state])) + rest
          ELSE rest

ExpectedUtility(tp, rw, g, U, state, action) ==
  ExpectedUtilityFrom(1, tp, rw, g, U, state, action)

\* action_values of one state: lines 135-152
ActionValues(tp, rw, g, U, state) ==
  [a \in Action |-> ExpectedUtility(tp, rw, g, U, state, a)]

\* ArgMaxFrom keeping the last of the largest values
RECURSIVE ArgMaxFromLast(_, _, _)
ArgMaxFromLast(k, best, av) ==
  IF k > Len(ActionOrder) THEN best
  ELSE ArgMaxFromLast(k + 1, IF av[ActionOrder[k]] >= av[best] THEN ActionOrder[k] ELSE best, av)

\* max(action_values, key=action_values.get): the first action, in
\* enumeration order, whose value is the largest
RECURSIVE ArgMaxFrom(_, _, _)
ArgMaxFrom(k, best, av) ==
  IF k > Len(ActionOrder) THEN best
  ELSE ArgMaxFrom(k + 1, IF av[ActionOrder[k]] > av[best] THEN ActionOrder[k] ELSE best, av)

ArgMax(av) == ArgMaxFrom(2, ActionOrder[1], av)

\* SweepFrom reading the utilities it is writing (an in-place update)
RECURSIVE SweepFromInPlace(_, _, _, _, _, _)
SweepFromInPlace(k, tp, rw, g, prev, st) ==
  IF k > Len(StateOrder) THEN st
  ELSE LET state == StateOrder[k]
           av == ActionValues(tp, rw, g, st.u, state)
           u == [st.u EXCEPT ![state] = av[ArgMax(av)]]
           d == Max2(st.d, Abs(u[state] - prev[state]))
       IN SweepFromInPlace(k + 1, tp, rw, g, prev, [u |-> u, d |-> d])

\* one sweep over `for state in State`: lines 133-159; st = [u, d]
RECURSIVE SweepFrom(_, _, _, _, _, _)
SweepFrom(k, tp, rw, g, prev, st) ==
  IF k > Len(StateOrder) THEN st
  ELSE LET state == StateOrder[k]
           av == ActionValues(tp, rw, g, prev, state)
           u == [st.u EXCEPT ![state] = av[ArgMax(av)]]
           d == Max2(st.d, Abs(u[state] - prev[state]))
       IN SweepFrom(k + 1, tp, rw, g, prev, [u |-> u, d |-> d])

\* PolicyFromUtilities filling in only the states whose utility a sweep has set
PolicyOfSweptStates(tp, rw, g, U) ==
  [s \in {t \in State : U[t] # 0} |-> ArgMax(ActionValues(tp, rw, g, U, s))]

\* lines 166-181
PolicyFromUtilities(tp, rw, g, U) ==
  [s \in State |-> ArgMax(ActionValues(tp, rw, g, U, s))]

ZeroUtilities == [s \in State |-> 0]

\* ----- DataStorage (data_storage.py) -----
\* DataStorage.__init__: lines 7-12
InitialData ==
  [login_analysis |-> <<>>, network_analysis |-> <<>>,
   service_impact_analysis |-> <<>>, mdp_decision |-> <<>>]

\* Store assigning a fresh list in both branches
StoreOverwriting(d, category, rec) ==
  [c \in DOMAIN d \cup {category} |-> IF c = category THEN <<rec>> ELSE d[c]]

\* DataStorage.store: lines 14-19
Store(d, category, rec) ==
  IF category \in DOMAIN d
  THEN [d EXCEPT ![category] = Append(@, rec)]
  ELSE [c \in DOMAIN d \cup {category} |-> IF c = category THEN <<rec>> ELSE d[c]]

\* a `limit` argument is <<>> for None and <<n>> for the integer n
NoLimit == <<>>

\* truth value of `limit` in `if limit:`
Truthy(limit) == limit # NoLimit /\ limit[1] # 0

\* list[-n:] for an integer n
LastSlice(list, n) ==
  LET len == Len(list)
      start == IF n > 0 THEN Max2(len - n, 0) ELSE Min2(-n, len)
  IN SubSeq(list, start + 1, len)

\* DataStorage.retrieve: lines 21-28
Retrieve(d, category, limit) ==
  IF category \notin DOMAIN d THEN <<>>
  ELSE IF Truthy(limit) THEN LastSlice(d[category], limit[1])
  ELSE d[category]

\* DataStorage.retrieve_latest: lines 30-35; None is <<>>, a record r is <<r>>
RetrieveLatest(d, category) ==
  LET items == Retrieve(d, category, <<1>>)
  IN IF items # <<>> THEN <<items[1]>> ELSE <<>>

\* ----- evidence -----
\* An event_data dict is a function from the keys it holds to their values.
\* An IP address string is the sequence of its octets; '' is <<>>.
Has(ev, k) == k \in DOMAIN ev

\* str.startswith for dotted prefixes such as '192.168.' (<<192, 168>>)
StartsWith(ip, prefix) ==
  Len(ip) >= Len(prefix) /\ SubSeq(ip, 1, Len(prefix)) = prefix

\* determine_current_state with the 900 threshold in the ATTACK rule as well
determine_current_state_900(event_data) ==
  IF Has(event_data, "protocol") /\ Has(event_data, "packet_count")
  THEN LET source_ip == Get(event_data, "source_ip", <<>>)
           packet_count == Get(event_data, "packet_count", 0)
           protocol == Get(event_data, "protocol", "")
       IN IF ~StartsWith(source_ip, <<192, 168>>) /\ packet_count > 500
          THEN IF protocol = "UDP" /\ packet_count > 900
               THEN "ATTACK"
               ELSE "SUSPICIOUS"
          ELSE IF packet_count > 900
               THEN "SUSPICIOUS"
               ELSE "NO_THREAT"
  ELSE IF Has(event_data, "username") /\ Has(event_data, "successful")
  THEN LET username == Get(event_data, "username", "")
           successful == Get(event_data, "successful", TRUE)
       IN IF username = "admin" /\ ~successful
          THEN "SUSPICIOUS"
          ELSE "NO_THREAT"
  ELSE "SUSPICIOUS"

\* determine_current_state: lines 186-226
determine_current_state(event_data) ==
  IF Has(event_data, "protocol") /\ Has(event_data, "packet_count")
  THEN LET source_ip == Get(event_data, "source_ip", <<>>)
           packet_count == Get(event_data, "packet_count", 0)
           protocol == Get(event_data, "protocol", "")
       IN IF ~StartsWith(source_ip, <<192, 168>>) /\ packet_count > 500
          THEN IF protocol = "UDP" /\ packet_count > 800
               THEN "ATTACK"
               ELSE "SUSPICIOUS"
          ELSE IF packet_count > 900
               THEN "SUSPICIOUS"
               ELSE "NO_THREAT"
  ELSE IF Has(event_data, "username") /\ Has(event_data, "successful")
  THEN LET username == Get(event_data, "username", "")
           successful == Get(event_data, "successful", TRUE)
       IN IF username = "admin" /\ ~successful
          THEN "SUSPICIOUS"
          ELSE "NO_THREAT"
  ELSE "SUSPICIOUS"

\* calculate_confidence without the 0.5 base
calculate_confidence_no_base(tp, rw, g, U, state, action) ==
  LET action_utilities == ActionValues(tp, rw, g, U, state)
      best_utility == action_utilities[action]
      others == {action_utilities[a] : a \in Action \ {action}}
      second_best == IF others = {} THEN 0
                     ELSE CHOOSE u \in others : \A v \in others : v <= u
      advantage == best_utility - second_best
      confidence == Min2(advantage \div 100, SCALE)
  IN IF \A a \in Action : Abs(action_utilities[a] - best_utility) < 1
     THEN SCALE \div 2
     ELSE confidence

\* _calculate_confidence: lines 270-323
calculate_confidence(tp, rw, g, U, state, action) ==
  LET action_utilities == ActionValues(tp, rw, g, U, state)
      best_utility == action_utilities[action]
      others == {action_utilities[a] : a \in Action \ {action}}
      second_best == IF others = {} THEN 0
                     ELSE CHOOSE u \in others : \A v \in others : v <= u
      advantage == best_utility - second_best
      confidence == Min2(SCALE \div 2 + advantage \div 100, SCALE)
  IN IF \A a \in Action : Abs(action_utilities[a] - best_utility) < 1
     THEN SCALE \div 2
     ELSE confidence

\* _get_action_description: lines 325-357
get_action_description(action, state) ==
  IF action = "MONITOR"
  THEN "Continue monitoring, no significant threat detected."
  ELSE IF action = "INVESTIGATE"
  THEN IF state = "SUSPICIOUS"
       THEN "Investigate suspicious activity for potential threats."
       ELSE "Further investigation recommended as a precautionary measure."
  ELSE IF action = "MITIGATE"
  THEN IF state = "ATTACK"
       THEN "Mitigate ongoing attack by implementing security controls."
       ELSE "Apply preventative security measures to address potential threat."
  ELSE IF action = "RECOVER"
  THEN IF state = "COMPROMISED"
       THEN "Initiate recovery procedures to restore system integrity."
       ELSE "Consider system restoration as a precautionary measure."
  ELSE "No specific action recommended."

\* analysis_result recording the immediate reward as the expected utility
analysis_result_immediate_reward(event_type, event_data) ==
  LET current_state == determine_current_state(event_data)
      optimal_action == optimal_policy[current_state]
  IN [timestamp |-> Get(event_data, "timestamp", clock),
      event_type |-> event_type,
      current_state |-> current_state,
      recommended_action |-> optimal_action,
      expected_utility |-> rewards[current_state][optimal_action] * SCALE,
      confidence |-> calculate_confidence(transition_probs, rewards, gamma, utilities,
                                          current_state, optimal_action)]

\* analysis_result lowering the confidence by 0.01 for each decision already stored
analysis_result_history(event_type, event_data) ==
  LET current_state == determine_current_state(event_data)
      optimal_action == optimal_policy[current_state]
  IN [timestamp |-> Get(event_data, "timestamp", clock),
      event_type |-> event_type,
      current_state |-> current_state,
      recommended_action |-> optimal_action,
      expected_utility |-> ExpectedUtility(transition_probs, rewards, gamma, utilities,
                                           current_state, optimal_action),
      confidence |-> calculate_confidence(transition_probs, rewards, gamma, utilities,
                                          current_state, optimal_action)
                     - Len(data["mdp_decision"]) * (SCALE \div 100)]

\* the record analyze_event builds: lines 239-261
analysis_result(event_type, event_data) ==
  LET current_state == determine_current_state(event_data)
      optimal_action == optimal_policy[current_state]
  IN [timestamp |-> Get(event_data, "timestamp", clock),
      event_type |-> event_type,
      current_state |-> current_state,
      recommended_action |-> optimal_action,
      expected_utility |-> ExpectedUtility(transition_probs, rewards, gamma, utilities,
                                           current_state, optimal_action),
      confidence |-> calculate_confidence(transition_probs, rewards, gamma, utilities,
                                          current_state, optimal_action)]

\* what analyze_event returns: lines 265-268
analysis_return(event_type, event_data) ==
  LET rec == analysis_result(event_type, event_data)
  IN <<rec.recommended_action,
       get_action_description(rec.recommended_action, rec.current_state)>>

\* ----- BayesianIDS (bayesian_ids.py) -----
\* p_attack = 0.02, in hundredths: line 12
PAttackHundredths == 2

\* login_attack_probability returning the posterior odds 0.9p / (0.1(1 - p))
login_attack_probability_odds(login_data) ==
  LET p0 == PAttackHundredths
      p1 == IF StartsWith(Get(login_data, "source_ip", <<>>), <<10>>) THEN (p0 * 3) \div 2 ELSE p0
      p2 == IF Get(login_data, "username", "None") = "admin" THEN p1 * 2 ELSE p1
      p3 == IF ~Get(login_data, "successful", TRUE) THEN p2 * 3 ELSE p2
      p == Min2(p3, 95)
  IN (9 * p * SCALE) \div (100 - p)

\* lines 22-44: the probability of an attack given an alert, in 1/SCALE.
\* adjusted_p_attack p is in hundredths; 0.9p / (0.9p + 0.1(1 - p)) = 9p / (8p + 100)
login_attack_probability(login_data) ==
  LET p0 == PAttackHundredths
      p1 == IF StartsWith(Get(login_data, "source_ip", <<>>), <<10>>) THEN (p0 * 3) \div 2 ELSE p0
      p2 == IF Get(login_data, "username", "None") = "admin" THEN p1 * 2 ELSE p1
      p3 == IF ~Get(login_data, "successful", TRUE) THEN p2 * 3 ELSE p2
      p == Min2(p3, 95)
  IN (9 * p * SCALE) \div (8 * p + 100)

\* the record of lines 47-52
login_analysis_record(login_data) ==
  [timestamp |-> Get(login_data, "timestamp", 0),
   username |-> Get(login_data, "username", ""),
   source_ip |-> Get(login_data, "source_ip", <<>>),
   attack_probability |-> login_attack_probability(login_data)]

\* ----- BayesianNetwork (bayesian_network.py) -----
\* P(alert=1) of each table, in tenths: lines 15-31 of bayesian_network.py
CPT_volume == [high |-> 7, low |-> 2]

CPT_protocol == [TCP |-> 3, UDP |-> 4, HTTP |-> 2]

CPT_source == [b \in BOOLEAN |-> IF b THEN 1 ELSE 6]

\* lines 39-41
network_evidence(evidence) ==
  [traffic_volume |-> Get(evidence, "traffic_volume", "low"),
   protocol |-> Get(evidence, "protocol", "TCP"),
   internal_source |-> Get(evidence, "internal_source", TRUE)]

\* the table lookups of lines 45-47 raise KeyError on a value outside the tables
network_key_error(evidence) ==
  LET e == network_evidence(evidence)
  IN \/ e.traffic_volume \notin DOMAIN CPT_volume
     \/ e.protocol \notin DOMAIN CPT_protocol
     \/ e.internal_source \notin DOMAIN CPT_source

\* line 50: 0.4 * p_volume + 0.3 * p_protocol + 0.3 * p_source, in 1/SCALE
network_risk_probability(evidence) ==
  LET e == network_evidence(evidence)
  IN (4 * CPT_volume[e.traffic_volume] + 3 * CPT_protocol[e.protocol]
      + 3 * CPT_source[e.internal_source]) * (SCALE \div 100)

\* the record of lines 53-58
network_analysis_record(evidence) ==
  LET e == network_evidence(evidence)
  IN [traffic_volume |-> e.traffic_volume, protocol |-> e.protocol,
      internal_source |-> e.internal_source,
      risk_probability |-> network_risk_probability(evidence)]

\* risk_level_of with `>= 0.7` for high
risk_level_of_inclusive(score) ==
  IF score >= (7 * SCALE) \div 10 THEN "high"
  ELSE IF score > (3 * SCALE) \div 10 THEN "medium"
  ELSE "low"

\* ----- the risk thresholds shared by the callers -----
\* `> 0.7` high, `> 0.3` medium, else low, on a value in 1/SCALE
risk_level_of(score) ==
  IF score > (7 * SCALE) \div 10 THEN "high"
  ELSE IF score > (3 * SCALE) \div 10 THEN "medium"
  ELSE "low"

\* ----- GitSecurityMonitor (git_monitor.py) -----
\* A timestamp is a number of seconds; datetime.fromtimestamp(t).hour in UTC
HourOf(t) == (t \div 3600) % 24

\* _is_within_active_hours with the default baseline [(9, 17)]: lines 197-205
is_within_active_hours(hour) == 9 <= hour /\ hour < 17

\* the paths of the model that match one of self.sensitive_paths: lines 37-45, 207-212
SensitivePaths == {"auth/login.py", "config/settings.py", "security/keys.py"}

is_sensitive_path(path) == path \in SensitivePaths

\* the branch names of the model that contain one of suspicious_branch_patterns: line 180
SuspiciousBranchNames == {"temp-fix", "hidden/test"}

\* all file paths of a list of commits, in order: lines 123-128
RECURSIVE sensitive_files(_)
sensitive_files(commits) ==
  IF commits = <<>> THEN <<>>
  ELSE SelectSeq(Get(Head(commits), "files_changed", <<>>), is_sensitive_path)
       \o sensitive_files(Tail(commits))

\* _analyze_push_event: lines 102-140; risk in hundredths, exact for pushes of
\* at most 10 commits.  Python's 0.1 * 3 is 0.30000000000000004: `excess` is
\* 1 (one unit of 1/SCALE) where the float sum lies above the sum of the
\* hundredths, so that the comparisons with 0.3 come out as they do in Python.
analyze_push_event(event, now) ==
  LET user == Get(event, "user", "")
      hour == HourOf(Get(event, "timestamp", now))
      commits == Get(event, "commits", <<>>)
      sens == sensitive_files(commits)
      off == ~is_within_active_hours(hour)
      large == Len(commits) > 10
      force == Get(event, "force_push", FALSE)
  IN [risk |-> (IF off THEN 25 ELSE 0)
               + (IF large THEN Min2(Len(commits), 30) ELSE 0)
               + (IF sens # <<>> THEN Min2(10 * Len(sens), 40) ELSE 0)
               + (IF force THEN 30 ELSE 0),
      excess |-> IF ~off /\ ~large /\ Len(sens) = 3 THEN 1 ELSE 0,
      factors |-> (IF off THEN <<"Push outside normal working hours">> ELSE <<>>)
                  \o (IF large THEN <<"Unusually large push">> ELSE <<>>)
                  \o (IF sens # <<>> THEN <<"Modified sensitive files">> ELSE <<>>)
                  \o (IF force THEN <<"Force-push detected (history rewriting)">> ELSE <<>>)]

\* _analyze_clone_event: lines 142-169; first_time is the outcome of
\* random.random() < 0.2.  Python's 0.2 + 0.1 is 0.30000000000000004.
analyze_clone_event(event, now, first_time) ==
  LET hour == HourOf(Get(event, "timestamp", now))
      ip_address == Get(event, "ip_address", <<>>)
      off == ~is_within_active_hours(hour)
      ext == ip_address # <<>> /\ ~StartsWith(ip_address, <<192, 168>>)
  IN [risk |-> (IF off THEN 20 ELSE 0) + (IF ext THEN 15 ELSE 0)
               + (IF first_time THEN 10 ELSE 0),
      excess |-> IF off /\ ~ext /\ first_time THEN 1 ELSE 0,
      factors |-> (IF off THEN <<"Repository clone outside normal working hours">> ELSE <<>>)
                  \o (IF ext THEN <<"Repository clone from external IP">> ELSE <<>>)
                  \o (IF first_time THEN <<"First-time clone by user">> ELSE <<>>)]

\* _analyze_branch_event: lines 171-195
analyze_branch_event(event) ==
  LET branch_name == Get(event, "branch_name", "")
      action == Get(event, "action", "created")
      susp == branch_name \in SuspiciousBranchNames
      short == action = "deleted" /\ Get(event, "branch_age_hours", 0) < 1
      sens == is_sensitive_path(branch_name)
  IN [risk |-> (IF susp THEN 15 ELSE 0) + (IF short THEN 20 ELSE 0)
               + (IF sens THEN 25 ELSE 0),
      excess |-> 0,
      factors |-> (IF susp THEN <<"Suspicious branch name">> ELSE <<>>)
                  \o (IF short THEN <<"Very short-lived branch">> ELSE <<>>)
                  \o (IF sens THEN <<"Branch targets sensitive area">> ELSE <<>>)]

\* analyze_git_activity: lines 60-78; risk_score in 1/SCALE
git_risk(git_event, now, first_time) ==
  LET event_type == Get(git_event, "event_type", "None")
      r == IF event_type = "push" THEN analyze_push_event(git_event, now)
           ELSE IF event_type = "clone" THEN analyze_clone_event(git_event, now, first_time)
           ELSE IF event_type = "branch" THEN analyze_branch_event(git_event)
           ELSE [risk |-> 0, excess |-> 0, factors |-> <<>>]
  IN [risk_score |-> r.risk * (SCALE \div 100) + r.excess, risk_factors |-> r.factors]

\* the record of lines 83-90
git_activity_record(git_event, now, first_time) ==
  LET r == git_risk(git_event, now, first_time)
  IN [timestamp |-> Get(git_event, "timestamp", now),
      event_type |-> Get(git_event, "event_type", "None"),
      repo |-> Get(git_event, "repo_name", ""),
      user |-> Get(git_event, "user", ""),
      risk_score |-> r.risk_score,
      risk_factors |-> r.risk_factors]

\* ----- ServiceImpactAnalyzer (service_impact.py) -----
\* A dict whose iteration order matters is the sequence of its <<key, value>>
\* items in insertion order.  self.service_tree: lines 13-30
service_tree ==
  << <<"Frontend UI",
       << <<"Auth Service",
            << <<"API Gateway",
                 << <<"User Service", << <<"Profile Service", <<>> >> >> >>,
                    <<"Order Service", << <<"Payment Service", <<>> >>,
                                          <<"Inventory Service", <<>> >> >> >>,
                    <<"Notification Service", << <<"Email Service", <<>> >> >> >> >> >> >> >> >> >> >>

\* `key in tree`
HasKey(tree, key) == \E n \in 1..Len(tree) : tree[n][1] = key

\* `tree[key]`
Lookup(tree, key) == tree[CHOOSE n \in 1..Len(tree) : tree[n][1] = key][2]

\* the subtrees of a dict in iteration order
RECURSIVE Subtrees(_)
Subtrees(tree) ==
  IF tree = <<>> THEN <<>> ELSE <<Head(tree)[2]>> \o Subtrees(Tail(tree))

\* find_subtree: lines 287-303; None is <<>>, a found subtree t is <<t>>
RECURSIVE find_subtree_loop(_, _)
find_subtree_loop(stack, target_service) ==
  IF stack = <<>> THEN <<>>
  ELSE LET current == stack[Len(stack)]
           rest == SubSeq(stack, 1, Len(stack) - 1)
       IN IF HasKey(current, target_service)
          THEN <<Lookup(current, target_service)>>
          ELSE find_subtree_loop(rest \o Subtrees(current), target_service)

find_subtree(tree, target_service) == find_subtree_loop(<<tree>>, target_service)

\* get_all_descendants: lines 305-315
RECURSIVE get_all_descendants(_)
get_all_descendants(subtree) ==
  IF subtree = <<>> THEN {}
  ELSE {Head(subtree)[1]} \cup get_all_descendants(Head(subtree)[2])
       \cup get_all_descendants(Tail(subtree))

\* the four messages of _generate_mock_commit_data (lines 253-258) with what
\* _analyze_commit_metadata reads off them: len(message) < 10, and a keyword
\* of suspicious_commit_messages in a message of fewer than 4 words
MockMessages ==
  << [message |-> "Fixed bug", short |-> TRUE, vague |-> TRUE],
     [message |-> "Updated documentation", short |-> FALSE, vague |-> TRUE],
     [message |-> "Added new feature", short |-> FALSE, vague |-> FALSE],
     [message |-> "Refactored code", short |-> FALSE, vague |-> FALSE] >>

\* analyze_commit_risk on the mock data: lines 104-159; risk in hundredths.
\* The mock diff matches no suspicious_code_patterns, the mock hour 9..17 is
\* outside high_risk_time and neither mock file list holds a high-risk file.
commit_risk_score(m, author) ==
  LET msg == MockMessages[m]
  IN [risk |-> (IF msg.short THEN 20 ELSE 0) + (IF msg.vague THEN 15 ELSE 0) + 15,
      factors |-> (IF msg.short THEN <<"Very short commit message">> ELSE <<>>)
                  \o (IF msg.vague THEN <<"Vague/suspicious commit message">> ELSE <<>>)
                  \o << <<"First commit from author", author>> >>]

\* the record of lines 147-151
commit_analysis_record(commit_sha, m, author) ==
  LET r == commit_risk_score(m, author)
  IN [commit_sha |-> commit_sha,
      risk_score |-> r.risk * (SCALE \div 100),
      risk_factors |-> r.factors]

\* analyze_service_change: lines 71-102, as a function of the storage
analyze_service_change(d, change_data, m, author) ==
  LET changed_service == Get(change_data, "service", "None")
      commit_sha == Get(change_data, "commit_sha", "")
      change_type == Get(change_data, "change_type", "")
      commit_rec == commit_analysis_record(commit_sha, m, author)
      d1 == Store(d, "commit_analysis", commit_rec)
      subtree == find_subtree(service_tree, changed_service)
  IN IF subtree = <<>> THEN d1
     ELSE Store(d1, "service_impact_analysis",
                [changed_service |-> changed_service,
                 change_type |-> change_type,
                 commit_sha |-> commit_sha,
                 impacted_services |-> {changed_service} \cup get_all_descendants(subtree[1]),
                 commit_risk |-> risk_level_of(commit_rec.risk_score)])

\* ----- ServiceDependencies (service_dependencies.py) -----
\* self.dependency_graph: lines 14-26, service |-> the services that depend on it
dependency_graph ==
  [s \in {"Auth Service", "API Gateway", "User Service", "Payment Service",
          "Database Service", "Notification Service", "Order Service",
          "Web Frontend", "Mobile App", "Logging Service"} |->
     IF s = "Auth Service" THEN <<"API Gateway", "User Service", "Payment Service">>
     ELSE IF s = "API Gateway" THEN <<"Web Frontend", "Mobile App">>
     ELSE IF s = "User Service" THEN <<"API Gateway", "Notification Service">>
     ELSE IF s = "Payment Service" THEN <<"API Gateway", "Order Service">>
     ELSE IF s = "Database Service"
     THEN <<"Auth Service", "User Service", "Payment Service", "Order Service">>
     ELSE IF s = "Notification Service" THEN <<"Web Frontend", "Mobile App">>
     ELSE IF s = "Order Service" THEN <<"API Gateway", "Web Frontend">>
     ELSE IF s = "Logging Service"
     THEN <<"Auth Service", "API Gateway", "User Service", "Payment Service",
            "Database Service", "Notification Service", "Order Service">>
     ELSE <<>>]

\* self.service_criticality: lines 32-43
service_criticality ==
  [s \in DOMAIN dependency_graph |->
     IF s \in {"Auth Service", "Database Service"} THEN 10
     ELSE IF s \in {"API Gateway", "Payment Service"} THEN 9
     ELSE IF s = "Order Service" THEN 8
     ELSE IF s \in {"User Service", "Web Frontend", "Mobile App"} THEN 7
     ELSE IF s = "Notification Service" THEN 5
     ELSE 4]

\* self.known_issues: lines 46-52
known_issues ==
  [sha \in {"a1b2c3d4e5f6a1b2c3d4e5f6a1b2c3d4e5f6a1b2"} |->
     [description |-> "Known security vulnerability",
      severity |-> "critical",
      affected_services |-> <<"Auth Service", "API Gateway">>]]

\* dfs of lines 81-88: the visited set after dfs(current_service), and after
\* the loop over the dependents from the k-th on
RECURSIVE dfs(_, _, _), dfs_dependents(_, _, _, _)
dfs(graph, visited, current_service) ==
  IF current_service \in visited THEN visited
  ELSE dfs_dependents(graph, visited \cup {current_service},
                      Get(graph, current_service, <<>>), 1)

dfs_dependents(graph, visited, dependents, k) ==
  IF k > Len(dependents) THEN visited
  ELSE dfs_dependents(graph, dfs(graph, visited, dependents[k]), dependents, k + 1)

\* list(visited): the members of a set, each once (Python leaves the order open)
RECURSIVE ListOf(_)
ListOf(set) ==
  IF set = {} THEN <<>>
  ELSE LET x == CHOOSE y \in set : TRUE IN <<x>> \o ListOf(set \ {x})

\* get_downstream_impacts returning the start service with the rest
get_downstream_impacts_keeping_start(graph, service) ==
  IF service \notin DOMAIN graph THEN <<>>
  ELSE ListOf(dfs(graph, {}, service))

\* get_downstream_impacts: lines 65-97
get_downstream_impacts(graph, service) ==
  IF service \notin DOMAIN graph THEN <<>>
  ELSE LET visited == dfs(graph, {}, service)
       IN ListOf(visited \ {service})

\* sum of the criticalities of lines 125-127
RECURSIVE criticality_sum(_, _)
criticality_sum(impacted, k) ==
  IF k > Len(impacted) THEN 0
  ELSE Get(service_criticality, impacted[k], 5) + criticality_sum(impacted, k + 1)

\* get_impact_severity: lines 99-146; no commit_sha is "", the score is in 1/SCALE
get_impact_severity(graph, service, commit_sha) ==
  IF commit_sha # "" /\ commit_sha \in DOMAIN known_issues
     /\ \E k \in DOMAIN known_issues[commit_sha].affected_services :
          known_issues[commit_sha].affected_services[k] = service
  THEN [severity |-> known_issues[commit_sha].severity,
        reason |-> known_issues[commit_sha].description,
        affected_services |-> known_issues[commit_sha].affected_services,
        total_impact_score |-> 10 * SCALE]
  ELSE LET impacted == get_downstream_impacts(graph, service)
           total == criticality_sum(impacted, 1)
           impact_score == IF Len(impacted) > 0
                           THEN Min2(10 * SCALE, (total * SCALE) \div Len(impacted))
                           ELSE total * SCALE
       IN [severity |-> IF impact_score >= 8 * SCALE THEN "high"
                        ELSE IF impact_score >= 5 * SCALE THEN "medium"
                        ELSE "low",
           reason |-> [text |-> "Change impacts downstream services", count |-> Len(impacted)],
           affected_services |-> impacted,
           total_impact_score |-> impact_score]

\* ----- Agent.process_event (agent.py) -----
\* f"{x:.2f}": x in 1/SCALE rounded to hundredths
Format2f(x) == (x + SCALE \div 200) \div (SCALE \div 100)

\* process_login_attempt asking the MDP only when the login is not answered LOW ALERT
process_login_attempt_mdp_unless_low(event_type, event_data) ==
  LET attack_probability == login_attack_probability(event_data)
      d1 == Store(data, "login_analysis", login_analysis_record(event_data))
      d2 == Store(d1, "mdp_decision", analysis_result(event_type, event_data))
      mdp_description == analysis_return(event_type, event_data)[2]
  IN IF attack_probability > (3 * SCALE) \div 10
     THEN [data |-> d2,
           result |-> [text |-> IF attack_probability > (7 * SCALE) \div 10
                                THEN "HIGH ALERT: Potential attack detected"
                                ELSE "MEDIUM ALERT: Suspicious activity detected",
                       confidence |-> Format2f(attack_probability),
                       description |-> mdp_description]]
     ELSE [data |-> d1,
           result |-> [text |-> "LOW ALERT: Normal login activity",
                       confidence |-> Format2f(SCALE - attack_probability)]]

\* lines 27-39
process_login_attempt(event_type, event_data) ==
  LET attack_probability == login_attack_probability(event_data)
      d1 == Store(data, "login_analysis", login_analysis_record(event_data))
      d2 == Store(d1, "mdp_decision", analysis_result(event_type, event_data))
      mdp_description == analysis_return(event_type, event_data)[2]
  IN [data |-> d2,
      result |-> IF attack_probability > (7 * SCALE) \div 10
                 THEN [text |-> "HIGH ALERT: Potential attack detected",
                       confidence |-> Format2f(attack_probability),
                       description |-> mdp_description]
                 ELSE IF attack_probability > (3 * SCALE) \div 10
                 THEN [text |-> "MEDIUM ALERT: Suspicious activity detected",
                       confidence |-> Format2f(attack_probability),
                       description |-> mdp_description]
                 ELSE [text |-> "LOW ALERT: Normal login activity",
                       confidence |-> Format2f(SCALE - attack_probability)]]

\* lines 41-61
process_service_change(event_data, m, author) ==
  LET d1 == analyze_service_change(data, event_data, m, author)
      analysis == RetrieveLatest(d1, "service_impact_analysis")
  IN [data |-> d1,
      result |-> IF analysis # <<>> /\ Has(analysis[1], "severity")
                 THEN LET severity == analysis[1]["severity"]
                          reason == Get(analysis[1], "reason", "Unknown")
                      IN [text |-> IF severity = "critical" THEN "CRITICAL"
                                   ELSE IF severity = "high" THEN "HIGH IMPACT"
                                   ELSE IF severity = "medium" THEN "MEDIUM IMPACT"
                                   ELSE "LOW IMPACT",
                          reason |-> reason]
                 ELSE [text |-> "Service change detected, impact unknown"]]

\* lines 63-78
process_network_traffic(event_type, event_data) ==
  LET d1 == Store(data, "mdp_decision", analysis_result(event_type, event_data))
      description == analysis_return(event_type, event_data)[2]
  IN IF network_key_error(event_data)
     THEN [data |-> d1, result |-> [text |-> "KeyError"]]
     ELSE LET attack_probability == network_risk_probability(event_data)
              severity == IF attack_probability > (7 * SCALE) \div 10 THEN "HIGH"
                          ELSE IF attack_probability > (3 * SCALE) \div 10 THEN "MEDIUM"
                          ELSE "LOW"
          IN [data |-> Store(d1, "network_analysis", network_analysis_record(event_data)),
              result |-> [text |-> "ALERT: Network traffic", severity |-> severity,
                          description |-> description,
                          attack_probability |-> Format2f(attack_probability)]]

\* lines 80-94
process_git_activity(event_type, event_data, first_time) ==
  LET rec == git_activity_record(event_data, clock, first_time)
      risk_level == risk_level_of(rec.risk_score)
      risk_factors == rec.risk_factors
      d1 == Store(data, "git_activity_analysis", rec)
      d2 == Store(d1, "mdp_decision", analysis_result(event_type, event_data))
      mdp_description == analysis_return(event_type, event_data)[2]
  IN [data |-> d2,
      result |-> IF risk_level = "high"
                 THEN [text |-> "HIGH RISK: Git activity",
                       factors |-> SubSeq(risk_factors, 1, Min2(2, Len(risk_factors))),
                       description |-> mdp_description]
                 ELSE IF risk_level = "medium"
                 THEN [text |-> "MEDIUM RISK: Git activity",
                       factors |-> SubSeq(risk_factors, 1, Min2(1, Len(risk_factors))),
                       description |-> mdp_description]
                 ELSE [text |-> "LOW RISK: Git activity - Normal behavior",
                       description |-> mdp_description]]

\* process_event: lines 24-97
process_event(event_type, event_data, first_time, m, author) ==
  IF event_type = "login_attempt" THEN process_login_attempt(event_type, event_data)
  ELSE IF event_type = "service_change" THEN process_service_change(event_data, m, author)
  ELSE IF event_type = "network_traffic" THEN process_network_traffic(event_type, event_data)
  ELSE IF event_type = "git_activity" THEN process_git_activity(event_type, event_data, first_time)
  ELSE [data |-> data, result |-> [text |-> "Unknown event type, no action taken"]]

\* ----- the solver, step by step -----
SolverLocals == <<max_iterations, epsilon, i, l_utilities, prev_utilities, delta, l_optimal_policy>>

Tables == <<transition_probs, rewards, gamma>>

Published == <<utilities, optimal_policy, utilities_from, policy_from>>

Calls == <<data, clock, call, result, read_from>>

\* self.transition_probs[action][state] raises KeyError for some pair: lines 143, 174
table_key_error(tp) ==
  \E a \in Action : a \notin DOMAIN tp \/ \E s \in State : s \notin DOMAIN tp[a]

\* entry of _compute_optimal_policy: lines 114-126
StartSolve(mi, eps) ==
  /\ pc \in {"construct", "idle"}
  /\ solves < MaxSolves
  /\ pc = "construct" => (mi = DefaultMaxIterations /\ eps = DefaultEpsilon)
  /\ solves' = solves + 1
  /\ max_iterations' = mi
  /\ epsilon' = eps
  /\ i' = 0
  /\ l_utilities' = ZeroUtilities
  /\ prev_utilities' = ZeroUtilities
  /\ delta' = 0
  /\ l_optimal_policy' = <<>>
  /\ pc' = IF mi > 0 THEN "loop" ELSE "policy"
  /\ UNCHANGED <<Tables, Published, Calls, stdout>>

\* the loop without the convergence test of lines 162-163
SweepWithoutBreak ==
  /\ pc = "loop"
  /\ IF table_key_error(transition_probs)
     THEN /\ pc' = "KeyError"
          /\ UNCHANGED <<prev_utilities, l_utilities, delta, i>>
     ELSE LET st == SweepFrom(1, transition_probs, rewards, gamma, l_utilities,
                              [u |-> l_utilities, d |-> 0])
          IN /\ prev_utilities' = l_utilities
             /\ l_utilities' = st.u
             /\ delta' = st.d
             /\ i' = i + 1
             /\ pc' = IF i + 1 >= max_iterations THEN "policy" ELSE "loop"
  /\ UNCHANGED <<Tables, Published, Calls, max_iterations, epsilon,
                 l_optimal_policy, solves, stdout>>

\* one iteration of `for i in range(max_iterations)`: lines 129-163
Sweep ==
  /\ pc = "loop"
  /\ IF table_key_error(transition_probs)
     THEN /\ pc' = "KeyError"
          /\ UNCHANGED <<prev_utilities, l_utilities, delta, i>>
     ELSE LET st == SweepFrom(1, transition_probs, rewards, gamma, l_utilities,
                              [u |-> l_utilities, d |-> 0])
          IN /\ prev_utilities' = l_utilities
             /\ l_utilities' = st.u
             /\ delta' = st.d
             /\ i' = i + 1
             /\ pc' = IF st.d < epsilon \/ i + 1 >= max_iterations THEN "policy" ELSE "loop"
  /\ UNCHANGED <<Tables, Published, Calls, max_iterations, epsilon,
                 l_optimal_policy, solves, stdout>>

\* lines 165-181
ComputePolicy ==
  /\ pc = "policy"
  /\ IF table_key_error(transition_probs)
     THEN /\ pc' = "KeyError"
          /\ UNCHANGED l_optimal_policy
     ELSE /\ l_optimal_policy' = PolicyFromUtilities(transition_probs, rewards, gamma, l_utilities)
          /\ pc' = "publish"
  /\ UNCHANGED <<Tables, Published, Calls, max_iterations, epsilon, i,
                 l_utilities, prev_utilities, delta, solves, stdout>>

\* line 183: self.utilities = utilities
PublishUtilities ==
  /\ pc = "publish"
  /\ utilities' = l_utilities
  /\ utilities_from' = solves
  /\ pc' = "return"
  /\ UNCHANGED <<Tables, optimal_policy, policy_from, Calls, SolverLocals, solves, stdout>>

\* line 184 and the caller's assignment of line 110; in __init__ the print
\* of line 112 follows
AssignPolicy ==
  /\ pc = "return"
  /\ optimal_policy' = l_optimal_policy
  /\ policy_from' = solves
  /\ pc' = "idle"
  /\ stdout' = IF optimal_policy = <<>>
               THEN Append(stdout, "Markov Decision Process initialized")
               ELSE stdout
  /\ UNCHANGED <<Tables, utilities, utilities_from, Calls, SolverLocals, solves>>

\* AnalyzeEvent caching the expected utility it computed in self.utilities
AnalyzeEventWritingBack(event_type, event_data) ==
  /\ optimal_policy # <<>>
  /\ Len(data["mdp_decision"]) < MaxDecisions
  /\ data' = Store(data, "mdp_decision", analysis_result(event_type, event_data))
  /\ utilities' = [utilities EXCEPT ![determine_current_state(event_data)] =
                     analysis_result(event_type, event_data).expected_utility]
  /\ clock' = clock + 1
  /\ call' = [op |-> "analyze_event", event_type |-> event_type, event_data |-> event_data]
  /\ result' = analysis_return(event_type, event_data)
  /\ read_from' = [policy |-> policy_from, utilities |-> utilities_from]
  /\ UNCHANGED <<Tables, optimal_policy, utilities_from, policy_from, pc, SolverLocals,
                 solves, stdout>>

\* ----- MarkovDecisionProcess.analyze_event called directly: lines 228-268 -----
AnalyzeEvent(event_type, event_data) ==
  /\ optimal_policy # <<>>
  /\ Len(data["mdp_decision"]) < MaxDecisions
  /\ data' = Store(data, "mdp_decision", analysis_result(event_type, event_data))
  /\ clock' = clock + 1
  /\ call' = [op |-> "analyze_event", event_type |-> event_type, event_data |-> event_data]
  /\ result' = analysis_return(event_type, event_data)
  /\ read_from' = [policy |-> policy_from, utilities |-> utilities_from]
  /\ UNCHANGED <<Tables, Published, pc, SolverLocals, solves, stdout>>

\* MarkovDecisionProcess._calculate_confidence called directly with any state
\* and action: lines 270-323; line 293 raises KeyError when the transition
\* table has no entry for an action and the state
CalculateConfidence(state, action) ==
  /\ pc = "idle"
  /\ call' = [op |-> "_calculate_confidence", state |-> state, action |-> action]
  /\ result' = IF \E a \in Action :
                     a \notin DOMAIN transition_probs \/ state \notin DOMAIN transition_probs[a]
                THEN [text |-> "KeyError"]
                ELSE [confidence |-> calculate_confidence(transition_probs, rewards, gamma,
                                                          utilities, state, action)]
  /\ UNCHANGED <<Tables, Published, pc, SolverLocals, solves, data, clock, read_from, stdout>>

\* Agent.process_event as one call; first_time, m and author are the draws of
\* random in _analyze_clone_event and _generate_mock_commit_data
ProcessEvent(event_type, event_data, first_time, m, author) ==
  /\ optimal_policy # <<>>
  /\ pc = "idle"
  /\ clock - StartTime < MaxEvents
  /\ LET out == process_event(event_type, event_data, first_time, m, author)
     IN /\ data' = out.data
        /\ result' = out.result
  /\ clock' = clock + 1
  /\ call' = [op |-> "process_event", event_type |-> event_type, event_data |-> event_data]
  /\ read_from' = IF event_type \in {"login_attempt", "network_traffic", "git_activity"}
                  THEN [policy |-> policy_from, utilities |-> utilities_from]
                  ELSE read_from
  /\ UNCHANGED <<Tables, Published, pc, SolverLocals, solves, stdout>>

\* ServiceDependencies.get_downstream_impacts as one call on an object whose
\* dependency_graph attribute is graph
GetDownstreamImpacts(graph, service) ==
  /\ call' = [op |-> "get_downstream_impacts", graph |-> graph, service |-> service]
  /\ result' = get_downstream_impacts(graph, service)
  /\ UNCHANGED <<Tables, Published, pc, SolverLocals, solves, data, clock, read_from, stdout>>

\* ServiceDependencies.get_impact_severity as one call
GetImpactSeverity(graph, service, commit_sha) ==
  /\ call' = [op |-> "get_impact_severity", graph |-> graph, service |-> service,
              commit_sha |-> commit_sha]
  /\ result' = get_impact_severity(graph, service, commit_sha)
  /\ UNCHANGED <<Tables, Published, pc, SolverLocals, solves, data, clock, read_from, stdout>>

\* a caller assigning new tables to self.transition_probs and self.rewards
\* of a constructed MDP, before it calls _compute_optimal_policy again
Reconfigure(tp, rw) ==
  /\ pc \in {"idle", "KeyError"}
  /\ solves < MaxSolves
  /\ <<tp, rw>> # <<transition_probs, rewards>>
  /\ transition_probs' = tp
  /\ rewards' = rw
  /\ pc' = "idle"
  /\ UNCHANGED <<gamma, Published, Calls, SolverLocals, solves, stdout>>

\* DataStorage.retrieve as one call
RetrieveCall(category, limit) ==
  /\ pc = "idle"
  /\ result' = Retrieve(data, category, limit)
  /\ call' = [op |-> "retrieve", category |-> category, limit |-> limit]
  /\ UNCHANGED <<Tables, Published, pc, SolverLocals, solves, data, clock, read_from, stdout>>

\* __init__ of Agent up to line 107 of markov_process.py
Init ==
  /\ transition_probs = TransitionTable
  /\ rewards = RewardTable
  /\ gamma = GammaTenths
  /\ utilities = ZeroUtilities
  /\ optimal_policy = <<>>
  /\ pc = "construct"
  /\ max_iterations = 0
  /\ epsilon = 0
  /\ i = 0
  /\ l_utilities = ZeroUtilities
  /\ prev_utilities = ZeroUtilities
  /\ delta = 0
  /\ l_optimal_policy = <<>>
  /\ solves = 0
  /\ utilities_from = 0
  /\ policy_from = 0
  /\ data = InitialData
  /\ clock = StartTime
  /\ call = [op |-> "none"]
  /\ result = <<>>
  /\ read_from = [policy |-> 0, utilities |-> 0]
  /\ stdout = <<>>

\* ----- inputs -----
ExternalIp == <<203, 0, 113, 5>>

InternalIp == <<192, 168, 1, 7>>

PacketCounts == {100, 500, 501, 800, 801, 900, 901}

\* evidence with protocol and packet_count, with and without a source_ip
NetworkEvidence ==
  {[source_ip |-> ip, packet_count |-> n, protocol |-> p] :
     ip \in {ExternalIp, InternalIp}, n \in PacketCounts, p \in {"TCP", "UDP"}}
  \cup {[packet_count |-> n, protocol |-> p] : n \in PacketCounts, p \in {"TCP", "UDP"}}

\* evidence with username and successful
LoginEvidence ==
  {[username |-> u, successful |-> ok] : u \in {"admin", "user1"}, ok \in BOOLEAN}

\* evidence with the keys of both
MixedEvidence ==
  {[username |-> u, successful |-> ok, source_ip |-> ExternalIp,
    packet_count |-> n, protocol |-> "UDP"] :
     u \in {"admin", "user1"}, ok \in BOOLEAN, n \in {100, 900}}

\* evidence matching neither rule
OtherEvidence ==
  {[event_type |-> "push", user |-> "bob"],
   [protocol |-> "UDP"],
   [username |-> "admin"],
   [packet_count |-> 950, successful |-> FALSE]}

DecideCalls ==
  ({"network_traffic"} \X NetworkEvidence)
  \cup ({"login_attempt"} \X (LoginEvidence \cup MixedEvidence))
  \cup ({"git_activity", "unknown"} \X (OtherEvidence \cup
          {[username |-> "guest", successful |-> TRUE],
           [source_ip |-> InternalIp, packet_count |-> 100, protocol |-> "TCP"]}))

\* the events of the re-solve specification, one per reachable current state
SolveCalls ==
  {<<"login_attempt", [username |-> "user1", successful |-> TRUE]>>,
   <<"login_attempt", [username |-> "admin", successful |-> FALSE]>>,
   <<"network_traffic", [source_ip |-> ExternalIp, packet_count |-> 900, protocol |-> "UDP"]>>}

KnownBadCommit == "a1b2c3d4e5f6a1b2c3d4e5f6a1b2c3d4e5f6a1b2"

\* the events of the application specification
AppEvents ==
  {<<"login_attempt", [username |-> "admin", source_ip |-> <<10, 0, 0, 3>>,
                       timestamp |-> 36000, successful |-> FALSE]>>,
   <<"login_attempt", [username |-> "user1", source_ip |-> InternalIp,
                       timestamp |-> 36000, successful |-> TRUE]>>,
   <<"network_traffic", [source_ip |-> ExternalIp, packet_count |-> 900, protocol |-> "UDP"]>>,
   <<"network_traffic", [source_ip |-> InternalIp, packet_count |-> 100, protocol |-> "TCP",
                         traffic_volume |-> "high", internal_source |-> FALSE]>>,
   <<"network_traffic", [source_ip |-> ExternalIp, packet_count |-> 600, protocol |-> "ICMP"]>>,
   <<"git_activity", [event_type |-> "push", user |-> "bob", timestamp |-> 7200,
                      force_push |-> TRUE,
                      commits |-> <<[files_changed |-> <<"auth/login.py", "src/app.py">>]>>]>>,
   <<"git_activity", [event_type |-> "clone", user |-> "eve", ip_address |-> ExternalIp]>>,
   <<"git_activity", [username |-> "guest", successful |-> TRUE]>>,
   <<"service_change", [service |-> "Auth Service", change_type |-> "code_update",
                        commit_sha |-> KnownBadCommit]>>,
   <<"service_change", [service |-> "unknown_service", change_type |-> "configuration_change",
                        commit_sha |-> "c0ffee"]>>,
   <<"unknown", [username |-> "admin", successful |-> FALSE]>>}

\* the outcomes of the random draws an event leads to: random.random() < 0.2 in
\* _analyze_clone_event, random.choice and random.randint in _generate_mock_commit_data
RandomDraws(event_type, event_data) ==
  IF event_type = "git_activity" /\ Get(event_data, "event_type", "None") = "clone"
  THEN {[first_time |-> b, m |-> 1, author |-> 1] : b \in BOOLEAN}
  ELSE IF event_type = "service_change"
  THEN {[first_time |-> FALSE, m |-> k, author |-> a] :
          k \in 1..Len(MockMessages), a \in 1..MaxAuthor}
  ELSE {[first_time |-> FALSE, m |-> 1, author |-> 1]}

\* categories retrieved: two of __init__, one created by store, one never stored to
Categories ==
  {"service_impact_analysis", "mdp_decision", "git_activity_analysis", "never_stored"}

Limits == {NoLimit} \cup {<<n>> : n \in 0..MaxLimit}

\* ----- specifications -----
SolverStep ==
  \/ Sweep
  \/ ComputePolicy
  \/ PublishUtilities
  \/ AssignPolicy

\* the solver called with any arguments, and analyze_event between its steps
NextSolve ==
  \/ \E mi \in MaxIterationsSet, eps \in EpsilonSet : StartSolve(mi, eps)
  \/ SolverStep
  \/ \E c \in SolveCalls : AnalyzeEvent(c[1], c[2])

SpecSolve == Init /\ [][NextSolve]_vars

\* construction, then analyze_event on any evidence
NextDecide ==
  \/ pc = "construct" /\ StartSolve(DefaultMaxIterations, DefaultEpsilon)
  \/ SolverStep
  \/ \E c \in DecideCalls : AnalyzeEvent(c[1], c[2])

SpecDecide == Init /\ [][NextDecide]_vars

\* the tables a re-solve is tried on
Configurations ==
  {<<TransitionTable, RewardTable>>,
   <<TransitionTableMissingEntry, RewardTable>>,
   <<TransitionTableNotSummingToOne, RewardTable>>,
   <<TransitionTable, RewardTableTied>>}

\* construction, then re-solves on reassigned tables and confidence queries
NextConfig ==
  \/ \E mi \in MaxIterationsSet, eps \in EpsilonSet : StartSolve(mi, eps)
  \/ SolverStep
  \/ \E c \in Configurations : Reconfigure(c[1], c[2])
  \/ \E state \in State, action \in Action : CalculateConfidence(state, action)

SpecConfig == Init /\ [][NextConfig]_vars

\* the events of the risk specification: every login evidence over two users
\* and two address ranges, every network evidence over the three tables, git
\* events whose risk lies on, next to and away from 0.3 and 0.7, and a change
\* of a known service (its commit risk is 0.15, 0.3 or 0.5 with the message drawn)
InHours == 36000

OffHours == 7200

FourSensitiveFiles ==
  <<[files_changed |-> <<"auth/login.py", "config/settings.py">>],
    [files_changed |-> <<"security/keys.py", "src/app.py", "auth/login.py">>]>>

ThreeSensitiveFiles ==
  <<[files_changed |-> <<"auth/login.py", "config/settings.py", "security/keys.py">>]>>

RiskEvents ==
  ({"login_attempt"} \X
     {[username |-> u, source_ip |-> ip, timestamp |-> InHours, successful |-> ok] :
        u \in {"admin", "user1"}, ip \in {<<10, 0, 0, 3>>, InternalIp}, ok \in BOOLEAN})
  \cup ({"network_traffic"} \X
     ({[protocol |-> p, traffic_volume |-> v, internal_source |-> b] :
         p \in DOMAIN CPT_protocol, v \in DOMAIN CPT_volume, b \in BOOLEAN}
      \cup {[source_ip |-> InternalIp, protocol |-> "HTTP", packet_count |-> 950]}))
  \cup ({"git_activity"} \X
     {[event_type |-> "push", user |-> "bob", timestamp |-> InHours, force_push |-> TRUE],
      [event_type |-> "push", user |-> "bob", timestamp |-> InHours, force_push |-> TRUE,
       commits |-> FourSensitiveFiles],
      [event_type |-> "push", user |-> "bob", timestamp |-> OffHours, force_push |-> TRUE,
       commits |-> FourSensitiveFiles],
      [event_type |-> "push", user |-> "bob", timestamp |-> InHours,
       commits |-> ThreeSensitiveFiles],
      [event_type |-> "clone", user |-> "eve", timestamp |-> OffHours],
      [event_type |-> "branch", user |-> "eve", branch_name |-> "temp-fix",
       action |-> "deleted", branch_age_hours |-> 0]})
  \cup ({"service_change"} \X
     {[service |-> "API Gateway", change_type |-> "code_update", commit_sha |-> "c0ffee"]})

\* construction, then process_event on the risk events
NextRisk ==
  \/ pc = "construct" /\ StartSolve(DefaultMaxIterations, DefaultEpsilon)
  \/ SolverStep
  \/ \E c \in RiskEvents : \E r \in RandomDraws(c[1], c[2]) :
       ProcessEvent(c[1], c[2], r.first_time, r.m, r.author)

SpecRisk == Init /\ [][NextRisk]_vars

\* the graphs of the dependency specification: the built-in one, one with a
\* cycle through Auth Service, and one with a self-loop and a dependent that
\* is not a key of the graph
CyclicGraph == [dependency_graph EXCEPT !["Web Frontend"] = <<"Auth Service">>]

SelfLoopGraph == [dependency_graph EXCEPT !["Mobile App"] = <<"Mobile App", "Audit Service">>]

Graphs == {dependency_graph, CyclicGraph, SelfLoopGraph}

QueriedServices == DOMAIN dependency_graph \cup {"Audit Service", "unknown_service"}

CommitShas == {"", KnownBadCommit, "c0ffee"}

\* a ServiceDependencies object queried for impacts and severities
NextDeps ==
  \/ \E g \in Graphs, s \in QueriedServices : GetDownstreamImpacts(g, s)
  \/ \E g \in Graphs, s \in QueriedServices, sha \in CommitShas : GetImpactSeverity(g, s, sha)

SpecDeps == Init /\ [][NextDeps]_vars

\* the agent alone: construction, then process_event on the application's events
NextEvents ==
  \/ pc = "construct" /\ StartSolve(DefaultMaxIterations, DefaultEpsilon)
  \/ SolverStep
  \/ \E c \in AppEvents : \E r \in RandomDraws(c[1], c[2]) :
       ProcessEvent(c[1], c[2], r.first_time, r.m, r.author)

SpecEvents == Init /\ [][NextEvents]_vars

\* the application: construction, then process_event and retrieve calls
Next ==
  \/ pc = "construct" /\ StartSolve(DefaultMaxIterations, DefaultEpsilon)
  \/ SolverStep
  \/ \E c \in AppEvents : \E r \in RandomDraws(c[1], c[2]) :
       ProcessEvent(c[1], c[2], r.first_time, r.m, r.author)
  \/ \E category \in Categories, limit \in Limits : RetrieveCall(category, limit)

Spec == Init /\ [][Next]_vars

\* ----- properties -----
Last(list) == list[Len(list)]

Decisions == data["mdp_decision"]

IsTotalPolicy(policy) ==
  DOMAIN policy = State /\ \A s \in State : policy[s] \in Action

RECURSIVE SumOver(_, _)
SumOver(f, keys) ==
  IF keys = {} THEN 0
  ELSE LET k == CHOOSE x \in keys : TRUE IN f[k] + SumOver(f, keys \ {k})

\* C1: solved with the built-in tables, gamma = 0.9, epsilon = 0.01 and
\* max_iterations = 100, the policy _compute_optimal_policy returns maps
\* COMPROMISED to RECOVER and NO_THREAT to MONITOR.
C1_ScenarioPolicy ==
  (pc = "return" /\ max_iterations = DefaultMaxIterations /\ epsilon = DefaultEpsilon)
    => (l_optimal_policy["COMPROMISED"] = "RECOVER" /\ l_optimal_policy["NO_THREAT"] = "MONITOR")

C1_Witness ==
  /\ pc = "return" /\ max_iterations = DefaultMaxIterations /\ epsilon = DefaultEpsilon
  /\ i > 1 /\ delta < epsilon

\* C2: when _compute_optimal_policy returns, whatever max_iterations and
\* epsilon were, the returned policy holds exactly one Action for each of the
\* four States and self.utilities holds a value for each of the four States.
C2_PolicyAndUtilitiesTotal ==
  (pc = "return")
    => /\ IsTotalPolicy(l_optimal_policy)
       /\ DOMAIN utilities = State
       /\ \A s \in State : utilities[s] \in Int

\* the loop body never ran
C2_Witness == pc = "return" /\ max_iterations = 0 /\ i = 0 /\ solves > 1

\* C3: the transition table has a next-state distribution for each of the 16
\* (action, state) pairs, names only members of State, holds probabilities
\* in [0, 1] and every distribution sums to 1 (100 hundredths).
C3_TransitionTableStochastic ==
  /\ DOMAIN transition_probs = Action
  /\ \A a \in Action :
       /\ DOMAIN transition_probs[a] = State
       /\ \A s \in State :
            LET dist == transition_probs[a][s]
            IN /\ DOMAIN dist \subseteq State
               /\ \A ns \in DOMAIN dist : dist[ns] >= 0 /\ dist[ns] <= 100
               /\ SumOver(dist, DOMAIN dist) = 100

C3_Witness == pc = "idle" /\ Len(Decisions) > 0

\* C4: every record stored under 'mdp_decision' has a confidence in [0.5, 1.0].
C4_ConfidenceBounds ==
  \A n \in 1..Len(Decisions) :
    Decisions[n].confidence >= SCALE \div 2 /\ Decisions[n].confidence <= SCALE

C4_Witness ==
  /\ call.op = "analyze_event"
  /\ Len(Decisions) > 0
  /\ Last(Decisions).confidence > SCALE \div 2
  /\ read_from.policy # read_from.utilities

\* the rule table of the network evidence, in priority order
IsNetworkEvidence(ev) == Has(ev, "protocol") /\ Has(ev, "packet_count")

IsExternal(ev) == ~StartsWith(Get(ev, "source_ip", <<>>), <<192, 168>>)

NetworkRuleTable(ev) ==
  IF IsExternal(ev) /\ ev["packet_count"] > 800 /\ ev["protocol"] = "UDP" THEN "ATTACK"
  ELSE IF IsExternal(ev) /\ ev["packet_count"] > 500 THEN "SUSPICIOUS"
  ELSE IF ev["packet_count"] > 900 THEN "SUSPICIOUS"
  ELSE "NO_THREAT"

ScenarioNetworkEvidence ==
  [source_ip |-> ExternalIp, packet_count |-> 900, protocol |-> "UDP"]

\* C5: evidence holding protocol and packet_count is classified by the rule
\* table in priority order (external, above 800 packets and UDP: ATTACK; else
\* external and above 500: SUSPICIOUS; else above 900: SUSPICIOUS; else
\* NO_THREAT), and {203.0.113.5, 900 packets, UDP} is classified ATTACK.
C5_NetworkRules ==
  (call.op = "analyze_event" /\ IsNetworkEvidence(call.event_data))
    => /\ Last(Decisions).current_state = NetworkRuleTable(call.event_data)
       /\ call.event_data = ScenarioNetworkEvidence => Last(Decisions).current_state = "ATTACK"

C5_Witness ==
  /\ call.op = "analyze_event"
  /\ call.event_data = ScenarioNetworkEvidence
  /\ Last(Decisions).current_state = "ATTACK"

IsLoginEvidence(ev) == Has(ev, "username") /\ Has(ev, "successful")

\* C6: evidence holding username and successful is classified SUSPICIOUS when
\* the username is admin and the login failed, and NO_THREAT otherwise.
C6_LoginRules ==
  (call.op = "analyze_event" /\ IsLoginEvidence(call.event_data))
    => Last(Decisions).current_state =
         (IF call.event_data["username"] = "admin" /\ ~call.event_data["successful"]
          THEN "SUSPICIOUS" ELSE "NO_THREAT")

\* C7: every event whose type has no classification rule is recorded by the
\* Decision Service with current state SUSPICIOUS, whatever its attributes.
C7_UnclassifiableIsSuspicious ==
  \A n \in 1..Len(Decisions) :
    Decisions[n].event_type \notin {"login_attempt", "network_traffic"}
      => Decisions[n].current_state = "SUSPICIOUS"

\* C8: no analyze_event call reads an optimal_policy and a utilities vector
\* written by different solves.
C8_AtomicPublish == read_from.policy = read_from.utilities

IsPrefix(old, new) == Len(old) <= Len(new) /\ SubSeq(new, 1, Len(old)) = old

\* C9: every step keeps each category and the records already in it, in
\* order, as a prefix of its list; it appends at most one record to a
\* category, and a retrieve changes no list.
C9_AppendOnly ==
  [][/\ \A c \in DOMAIN data :
          /\ c \in DOMAIN data'
          /\ IsPrefix(data[c], data'[c])
          /\ Len(data'[c]) <= Len(data[c]) + 1
     /\ \A c \in DOMAIN data' \ DOMAIN data : Len(data'[c]) = 1
     /\ call'.op = "retrieve" => data' = data]_vars

C9_Witness ==
  /\ call.op = "retrieve"
  /\ Len(Decisions) = 2
  /\ "git_activity_analysis" \in DOMAIN data
  /\ Len(data["git_activity_analysis"]) = 2

\* the last n records of a list, in order
MostRecent(list, n) == SubSeq(list, Len(list) - Min2(n, Len(list)) + 1, Len(list))

\* C10: retrieve(category, N) with N >= 0 returns the min(N, number stored)
\* most recently stored records of the category in the order stored, and an
\* empty list for a category never stored to.
C10_RetrieveMostRecent ==
  (call.op = "retrieve" /\ call.limit # NoLimit)
    => result = (IF call.category \in DOMAIN data
                 THEN MostRecent(data[call.category], call.limit[1])
                 ELSE <<>>)

\* a table is malformed when a distribution is missing or does not sum to 1
IsMalformed(tp) ==
  \/ table_key_error(tp)
  \/ \E a \in Action, st \in State : SumOver(tp[a][st], DOMAIN tp[a][st]) # 100

\* C11: a solve on a malformed transition table (a missing distribution, or
\* probabilities not summing to 1) fails with a ConfigurationError: it never
\* gets as far as computing, publishing or returning a policy, and the only
\* exception it leaves by is ConfigurationError.
C11_MalformedTableRejected ==
  (IsMalformed(transition_probs) /\ solves > policy_from)
    => (pc \notin {"publish", "return", "KeyError"} /\ utilities_from < solves)

\* the loop ran max_iterations times and never broke out on delta < epsilon
DidNotConverge == max_iterations > 0 /\ i = max_iterations /\ delta >= epsilon

\* C12: a solve whose max_iterations sweeps all ended with delta >= epsilon
\* still returns a total policy, and it reports a 'did not fully converge'
\* warning, on its output or in what it returns, that a converged solve
\* does not report.
C12_NonConvergenceWarning ==
  (pc = "return" /\ DidNotConverge)
    => /\ IsTotalPolicy(l_optimal_policy)
       /\ \/ \E n \in 1..Len(stdout) : stdout[n] = "did not fully converge"
          \/ "warning" \in DOMAIN l_optimal_policy

\* C13: when analyze_event is called twice in a row with the same event type
\* and the same event data, and both calls read the policy and utilities of
\* the same solve, the two records stored agree on recommended_action,
\* current_state and confidence.
C13_Idempotent ==
  [][(/\ call.op = "analyze_event"
      /\ call' = call
      /\ clock' # clock
      /\ read_from' = read_from)
     => /\ Last(Decisions').recommended_action = Last(Decisions).recommended_action
        /\ Last(Decisions').current_state = Last(Decisions).current_state
        /\ Last(Decisions').confidence = Last(Decisions).confidence]_vars

\* two records of the same call, stored at different times
C13_Witness ==
  /\ call.op = "analyze_event"
  /\ Len(Decisions) = 2
  /\ \A n \in 1..2 :
       /\ Decisions[n].event_type = call.event_type
       /\ Decisions[n].current_state = determine_current_state(call.event_data)
  /\ Decisions[1].confidence = Decisions[2].confidence
  /\ Decisions[1].recommended_action = Decisions[2].recommended_action
  /\ Decisions[1].timestamp # Decisions[2].timestamp

\* C14: a step that is an analyze_event call leaves optimal_policy,
\* utilities, transition_probs, rewards and gamma as they were, so after any
\* number of calls they are what the solve left.
C14_AnalyzeEventFrame ==
  [][clock' # clock
     => UNCHANGED <<optimal_policy, utilities, transition_probs, rewards, gamma>>]_vars

C14_Witness ==
  /\ call.op = "analyze_event"
  /\ Len(Decisions) = 2
  /\ optimal_policy = l_optimal_policy
  /\ utilities = l_utilities
  /\ utilities # ZeroUtilities
  /\ <<transition_probs, rewards, gamma>> = <<TransitionTable, RewardTable, GammaTenths>>

\* the level of a score x in 1/SCALE: above 0.7 high, else above 0.3 medium, else low
LevelOf(x) ==
  IF 10 * x > 7 * SCALE THEN "high"
  ELSE IF 10 * x > 3 * SCALE THEN "medium"
  ELSE "low"

\* the level a response text or severity names
LevelNamed(text) ==
  IF text \in {"HIGH ALERT: Potential attack detected", "HIGH", "HIGH RISK: Git activity"}
  THEN "high"
  ELSE IF text \in {"MEDIUM ALERT: Suspicious activity detected", "MEDIUM",
                    "MEDIUM RISK: Git activity"}
  THEN "medium"
  ELSE IF text \in {"LOW ALERT: Normal login activity", "LOW",
                    "LOW RISK: Git activity - Normal behavior"}
  THEN "low"
  ELSE "none"

\* C15: the level of the login alert, of the network alert, of the git
\* response and the commit risk level each are the level of the score the
\* scorer recorded under the same thresholds: above 0.7 high, else above 0.3
\* medium, else low; a score of exactly 0.3 is low and one of exactly 0.7 medium.
C15_ThresholdsConsistent ==
  (call.op = "process_event")
    => /\ (call.event_type = "login_attempt")
            => LevelNamed(result.text) = LevelOf(Last(data["login_analysis"]).attack_probability)
       /\ (call.event_type = "network_traffic" /\ result.text # "KeyError")
            => LevelNamed(result.severity)
                 = LevelOf(Last(data["network_analysis"]).risk_probability)
       /\ (call.event_type = "git_activity")
            => LevelNamed(result.text) = LevelOf(Last(data["git_activity_analysis"]).risk_score)
       /\ (call.event_type = "service_change" /\ data["service_impact_analysis"] # <<>>)
            => Last(data["service_impact_analysis"]).commit_risk
                 = LevelOf(Last(data["commit_analysis"]).risk_score)

\* a git score of exactly 0.7 answered MEDIUM after a commit risk of exactly 0.3 rated low
C15_Witness ==
  /\ call.op = "process_event"
  /\ call.event_type = "git_activity"
  /\ Last(data["git_activity_analysis"]).risk_score = (7 * SCALE) \div 10
  /\ result.text = "MEDIUM RISK: Git activity"
  /\ "commit_analysis" \in DOMAIN data
  /\ Last(data["commit_analysis"]).risk_score = (3 * SCALE) \div 10
  /\ Last(data["service_impact_analysis"]).commit_risk = "low"

\* C16: every attack_probability recorded by analyze_login_attempt and every
\* risk_probability recorded by analyze_network_traffic lies in [0, 1].
C16_ScorersInUnitInterval ==
  /\ \A n \in 1..Len(data["login_analysis"]) :
       /\ data["login_analysis"][n].attack_probability >= 0
       /\ data["login_analysis"][n].attack_probability <= SCALE
  /\ \A n \in 1..Len(data["network_analysis"]) :
       /\ data["network_analysis"][n].risk_probability >= 0
       /\ data["network_analysis"][n].risk_probability <= SCALE

\* the largest login score (admin, failed, from 10.x) and the largest network score
C16_Witness ==
  /\ data["login_analysis"] # <<>>
  /\ data["network_analysis"] # <<>>
  /\ Last(data["login_analysis"]).attack_probability > (66 * SCALE) \div 100
  /\ Last(data["network_analysis"]).risk_probability = (58 * SCALE) \div 100

\* network evidence that lacks its source_ip
IsMalformedEvidence(ev) == IsNetworkEvidence(ev) /\ ~Has(ev, "source_ip")

\* C17: an analyze_event call on network evidence without a source_ip is
\* rejected with an input error: it classifies nothing, so it stores no
\* decision record.
C17_MalformedEvidenceRejected ==
  [][(/\ clock' # clock
      /\ call'.op = "analyze_event"
      /\ IsMalformedEvidence(call'.event_data))
     => data' = data]_vars

\* the sum over next states s' of P(s'|s,a) * (R(s,a) + gamma * U(s'))
BellmanSum(tp, rw, g, U, s, a) ==
  LET dist == tp[a][s]
      term == [ns \in DOMAIN dist |->
                 MulProb(dist[ns], rw[s][a] * SCALE + MulGamma(g, U[ns]))]
  IN SumOver(term, DOMAIN dist)

\* C18: the record an analyze_event call stores has recommended_action =
\* optimal_policy[current_state] and expected_utility = the sum over s' of
\* P(s'|current_state, action) * (R(current_state, action) + gamma * U(s'))
\* for the published utilities U (stated while what the call read is still
\* what is published).
C18_RecordedActionAndUtility ==
  (/\ call.op = "analyze_event"
   /\ read_from = [policy |-> policy_from, utilities |-> utilities_from])
    => LET rec == Last(Decisions)
       IN /\ rec.recommended_action = optimal_policy[rec.current_state]
          /\ rec.expected_utility =
               BellmanSum(transition_probs, rewards, gamma, utilities,
                          rec.current_state, rec.recommended_action)

C18_Witness ==
  /\ call.op = "analyze_event"
  /\ read_from = [policy |-> policy_from, utilities |-> utilities_from]
  /\ Last(Decisions).current_state = "ATTACK"
  /\ Last(Decisions).recommended_action = "MITIGATE"
  /\ Last(Decisions).expected_utility > 100 * SCALE

\* the largest of the values of a function
MaxValue(f) == CHOOSE v \in {f[x] : x \in DOMAIN f} : \A x \in DOMAIN f : f[x] <= v

\* C19: after each sweep, for every state s the new U(s) is the maximum over
\* the actions a of the sum over s' of P(s'|s,a) * (R(s,a) + gamma * U_prev(s')),
\* U_prev being the vector from before the sweep.
C19_SynchronousSweep ==
  (i > 0 /\ pc # "KeyError")
    => \A s \in State :
         l_utilities[s] =
           MaxValue([a \in Action |->
                       BellmanSum(transition_probs, rewards, gamma, prev_utilities, s, a)])

\* a sweep that started from utilities already differing between the states
C19_Witness ==
  /\ pc = "loop"
  /\ i = 3
  /\ prev_utilities["NO_THREAT"] # prev_utilities["SUSPICIOUS"]
  /\ l_utilities # prev_utilities

\* the first action, in enumeration order, whose E(s, a) from U is the largest
FirstBest(tp, rw, g, U, s) ==
  LET E == [a \in Action |-> BellmanSum(tp, rw, g, U, s, a)]
      k == CHOOSE n \in 1..Len(ActionOrder) :
             /\ \A a \in Action : E[a] <= E[ActionOrder[n]]
             /\ \A m \in 1..(n - 1) : E[ActionOrder[m]] < E[ActionOrder[n]]
  IN ActionOrder[k]

\* C20: for every state s the policy a solve returns, and the policy
\* published from it, is an action maximizing E(s, a) under the final
\* utilities, and among tied maximizing actions the first of MONITOR,
\* INVESTIGATE, MITIGATE, RECOVER.
C20_PolicyIsFirstArgMax ==
  /\ (pc \in {"publish", "return"})
       => \A s \in State :
            l_optimal_policy[s] = FirstBest(transition_probs, rewards, gamma, l_utilities, s)
  /\ (pc = "idle" /\ policy_from = solves) => optimal_policy = l_optimal_policy

\* MITIGATE and RECOVER tie for ATTACK and the earlier one is returned
C20_Witness ==
  /\ pc = "return"
  /\ rewards = RewardTableTied
  /\ BellmanSum(transition_probs, rewards, gamma, l_utilities, "ATTACK", "MITIGATE")
       = BellmanSum(transition_probs, rewards, gamma, l_utilities, "ATTACK", "RECOVER")
  /\ l_optimal_policy["ATTACK"] = "MITIGATE"

\* ----- C21 -----
BuiltIn == transition_probs = TransitionTable /\ rewards = RewardTable /\ gamma = GammaTenths

DefaultArguments == max_iterations = DefaultMaxIterations /\ epsilon = DefaultEpsilon

\* the loop has made at most max_iterations sweeps, goes on only while the
\* last delta was not below epsilon, and is left only by convergence or at
\* the limit; on the built-in tables with the default arguments it is left by
\* convergence before the limit
SweepsBounded ==
  /\ i <= max_iterations
  /\ pc = "loop" => (i < max_iterations /\ (i > 0 => delta >= epsilon))
  /\ (pc \in {"policy", "publish", "return"} /\ i > 0) =>
       (delta < epsilon \/ i = max_iterations)
  /\ (pc \in {"policy", "publish", "return"} /\ BuiltIn /\ DefaultArguments) =>
       (i < DefaultMaxIterations /\ delta < epsilon)

\* C21: value iteration always terminates: it makes at most max_iterations
\* sweeps and stops right after the first sweep whose delta is below epsilon;
\* with the built-in tables, gamma 0.9 and epsilon 0.01 it stops by
\* convergence before the limit of 100 sweeps
\* (every step that stays in the loop counts i up towards max_iterations, so
\* max_iterations - i is a variant of the loop)
C21_Terminates ==
  /\ []SweepsBounded
  /\ [][(pc = "loop" /\ pc' = "loop") => (i' = i + 1 /\ i' < max_iterations)]_vars

C21_Witness ==
  /\ pc = "return"
  /\ BuiltIn /\ DefaultArguments
  /\ i > 1 /\ i < DefaultMaxIterations
  /\ delta < epsilon

\* ----- C22 -----
Clamp(x, lo, hi) == Max2(lo, Min2(x, hi))

\* the value the confidence formula gives for a state and an action argument
ClampedConfidence(state, action) ==
  LET E == [a \in Action |->
              BellmanSum(transition_probs, rewards, gamma, utilities, state, a)]
      rest == {E[a] : a \in Action \ {action}}
      best_other == CHOOSE u \in rest : \A v \in rest : v <= u
  IN IF \A a, b \in Action : Abs(E[a] - E[b]) < 1
     THEN SCALE \div 2
     ELSE Clamp(SCALE \div 2 + (E[action] - best_other) \div 100, SCALE \div 2, SCALE)

\* C22: for every state and every action argument, _calculate_confidence
\* returns clamp(0.5 + (E(s,action) - max over the other actions of E(s,a)) / 100,
\* 0.5, 1.0), and exactly 0.5 when all actions' expected utilities are within
\* 1e-6 of each other
C22_ConfidenceClamped ==
  [][(call' # call /\ call'.op = "_calculate_confidence" /\ "confidence" \in DOMAIN result')
       => result'.confidence = ClampedConfidence(call'.state, call'.action)]_vars

RECURSIVE ReachableWithin(_, _, _)
ReachableWithin(graph, start, k) ==
  LET Dependents(s) == {Get(graph, s, <<>>)[n] : n \in DOMAIN Get(graph, s, <<>>)}
  IN IF k = 0 THEN Dependents(start)
     ELSE LET R == ReachableWithin(graph, start, k - 1)
          IN R \cup UNION {Dependents(s) : s \in R}

Reachable(graph, start) == ReachableWithin(graph, start, Cardinality(DOMAIN graph))

Elements(list) == {list[n] : n \in DOMAIN list}

\* C24: for every service in the dependency graph get_downstream_impacts
\* returns (also on a graph with cycles) exactly the services reachable from it
\* through one or more dependency edges, each once and never the service
\* itself; for a service that is not in the graph it returns an empty list
C24_DownstreamIsReachable ==
  call.op = "get_downstream_impacts" =>
    IF call.service \in DOMAIN call.graph
    THEN /\ Elements(result) = Reachable(call.graph, call.service) \ {call.service}
         /\ Len(result) = Cardinality(Elements(result))
         /\ call.service \notin Elements(result)
    ELSE result = <<>>

C24_Witness ==
  /\ call.op = "get_downstream_impacts"
  /\ call.graph = CyclicGraph
  /\ call.service = "Web Frontend"
  /\ Len(result) = 7

\* ----- C25 -----
\* a step that is a process_event call of the given type
Handles(event_type) ==
  clock' # clock /\ call'.op = "process_event" /\ call'.event_type = event_type

ImpactRecords == data["service_impact_analysis"]

\* C25: the 'service_impact_analysis' record that process_event reads while
\* handling a service_change event is the record that event produced, never
\* one left by an earlier event, also when the event names a service that is
\* not in the service tree
C25_ReadsOwnImpactRecord ==
  [][Handles("service_change") =>
       (RetrieveLatest(data', "service_impact_analysis") # <<>> =>
          /\ Len(ImpactRecords') = Len(ImpactRecords) + 1
          /\ Last(ImpactRecords').changed_service = call'.event_data.service)]_vars

\* ----- C26 -----
SeverityGraded == {"CRITICAL", "HIGH IMPACT", "MEDIUM IMPACT", "LOW IMPACT"}

\* C26: a service_change event on a service of the service tree is answered
\* with a severity-graded response and not with 'Service change detected,
\* impact unknown'; a change to Auth Service with the known problematic commit
\* is answered CRITICAL
C26_ServiceChangeGraded ==
  (/\ call.op = "process_event"
   /\ call.event_type = "service_change"
   /\ find_subtree(service_tree, Get(call.event_data, "service", "None")) # <<>>)
  => /\ result.text \in SeverityGraded
     /\ (call.event_data.service = "Auth Service"
           /\ call.event_data.commit_sha = KnownBadCommit) => result.text = "CRITICAL"

\* ----- C27 -----
DecisionEvents == {"login_attempt", "network_traffic", "git_activity"}

\* C27: the number of 'mdp_decision' records equals the number of
\* login_attempt, network_traffic and git_activity events passed to
\* process_event so far: there is none at the start, each such event adds
\* exactly one (a login answered LOW ALERT too), and service_change events
\* and events of unknown type add none
C27_OneDecisionPerEvent ==
  /\ Len(Decisions) = 0
  /\ [][clock' # clock =>
          Len(Decisions') = Len(Decisions)
                            + (IF call'.event_type \in DecisionEvents THEN 1 ELSE 0)]_vars

C27_Witness ==
  /\ clock - StartTime = 2
  /\ call.op = "process_event"
  /\ call.event_type = "login_attempt"
  /\ result.text = "LOW ALERT: Normal login activity"
  /\ Len(Decisions) = 1
  /\ Len(data["commit_analysis"]) = 1

\* ----- C28 -----
\* C28: handling a network_traffic event is all-or-nothing for the storage:
\* process_event stores both an 'mdp_decision' and a 'network_analysis' record
\* for the event or, when it fails, neither
C28_NetworkAllOrNothing ==
  [][Handles("network_traffic") =>
       \/ /\ Len(Decisions') = Len(Decisions) + 1
          /\ Len(data'["network_analysis"]) = Len(data["network_analysis"]) + 1
       \/ /\ Decisions' = Decisions
          /\ data'["network_analysis"] = data["network_analysis"]]_vars

\* ----- C29 -----
\* login events of any username, any source address range and either
\* outcome, with and without each key
AllLoginEvidence ==
  {[k \in keys |-> IF k = "username" THEN u ELSE IF k = "source_ip" THEN ip ELSE ok] :
     keys \in SUBSET {"username", "source_ip", "successful"},
     u \in {"admin", "user1", "guest"},
     ip \in {<<10, 0, 0, 3>>, InternalIp, ExternalIp},
     ok \in BOOLEAN}

LoginAlertLevels ==
  {"HIGH ALERT: Potential attack detected",
   "MEDIUM ALERT: Suspicious activity detected",
   "LOW ALERT: Normal login activity"}

\* C29: each of the three login alert levels is reachable: for each there is
\* a login event that process_event answers with it
C29_EveryLoginLevelReachable ==
  pc = "idle" =>
    \A level \in LoginAlertLevels :
      \E ev \in AllLoginEvidence :
        process_event("login_attempt", ev, FALSE, 1, 1).result.text = level
====
